---- MODULE Spec2Model ----
(***************************************************************************)
(* Model of the gbemulator execution core (src/src/main.rs): the register  *)
(* file with its 16-bit pair accessors, the packed flags register and the  *)
(* arithmetic/logic executor CPU::execute.                                 *)
(***************************************************************************)
EXTENDS Integers, Sequences, FiniteSets, TLC

VARIABLES registers, pre, instr, ret, panicked, steps

vars == <<registers, pre, instr, ret, panicked, steps>>

(***************************************************************************)
(* Bounds of the model.                                                    *)
(***************************************************************************)
\* longest sequence of calls explored from an initial register file
MaxSteps == 1

\* 8-bit values the accumulator starts from
InitA == {0, 1, 15, 32, 143, 255}

\* values of B, C, D, E, H, L the register file starts from
InitRest == { <<0, 1, 15, 16, 255, 240>>,
              <<17, 49, 51, 68, 102, 119>> }

\* 16-bit values handed to the pair setters
WordSamples == {0, 4095, 57005, 65280, 65535, 271}

(***************************************************************************)
(* Machine integers: Rust's u8 / u16 operators on naturals.                *)
(***************************************************************************)
U8 == 256
U16 == 65536

\* 2^n
Pow2(n) == 2 ^ n

\* x << n on a w-valued type (bits shifted out are lost)
Shl(x, n, w) == (x * Pow2(n)) % w

\* x >> n
Shr(x, n) == x \div Pow2(n)

\* bitwise operators, bit by bit from the least significant one
RECURSIVE BitAnd(_, _)
BitAnd(x, y) ==
    IF x = 0 \/ y = 0 THEN 0
    ELSE (IF x % 2 = 1 /\ y % 2 = 1 THEN 1 ELSE 0) + 2 * BitAnd(x \div 2, y \div 2)

RECURSIVE BitOr(_, _)
BitOr(x, y) ==
    IF x = 0 THEN y
    ELSE IF y = 0 THEN x
    ELSE (IF x % 2 = 1 \/ y % 2 = 1 THEN 1 ELSE 0) + 2 * BitOr(x \div 2, y \div 2)

RECURSIVE BitXor(_, _)
BitXor(x, y) ==
    IF x = 0 THEN y
    ELSE IF y = 0 THEN x
    ELSE (IF x % 2 # y % 2 THEN 1 ELSE 0) + 2 * BitXor(x \div 2, y \div 2)

\* bool as u8
AsU8(flag) == IF flag THEN 1 ELSE 0

\* u8::overflowing_add / u16::overflowing_add: (wrapped sum, overflowed)
overflowing_add(x, y, w) == [result |-> (x + y) % w, carry |-> x + y >= w]

\* u8::overflowing_sub: (wrapped difference, borrowed)
overflowing_sub(x, y, w) == [result |-> (x - y + w) % w, carry |-> x < y]

(***************************************************************************)
(* FlagsRegister and its byte encoding.                                    *)
(***************************************************************************)
ZERO_FLAG_BYTE_POSITION == 7
SUBTRACT_FLAG_BYTE_POSITION == 6
HALF_CARRY_FLAG_BYTE_POSITION == 5
CARRY_FLAG_BYTE_POSITION == 4

FlagsRegister == [zero : BOOLEAN, subtract : BOOLEAN, half_carry : BOOLEAN, carry : BOOLEAN]

\* impl From<FlagsRegister> for u8
FlagsToU8(flag) ==
    BitOr(BitOr(BitOr(Shl(AsU8(flag.zero), ZERO_FLAG_BYTE_POSITION, U8),
                      Shl(AsU8(flag.subtract), SUBTRACT_FLAG_BYTE_POSITION, U8)),
                Shl(AsU8(flag.half_carry), HALF_CARRY_FLAG_BYTE_POSITION, U8)),
          Shl(AsU8(flag.carry), CARRY_FLAG_BYTE_POSITION, U8))

\* From<u8> for FlagsRegister reading the carry flag one bit too low
U8ToFlags_CarryBit3(byte) ==
    [zero       |-> BitAnd(Shr(byte, ZERO_FLAG_BYTE_POSITION), 1) # 0,
     subtract   |-> BitAnd(Shr(byte, SUBTRACT_FLAG_BYTE_POSITION), 1) # 0,
     half_carry |-> BitAnd(Shr(byte, HALF_CARRY_FLAG_BYTE_POSITION), 1) # 0,
     carry      |-> BitAnd(Shr(byte, CARRY_FLAG_BYTE_POSITION - 1), 1) # 0]

\* impl From<u8> for FlagsRegister
U8ToFlags(byte) ==
    [zero       |-> BitAnd(Shr(byte, ZERO_FLAG_BYTE_POSITION), 1) # 0,
     subtract   |-> BitAnd(Shr(byte, SUBTRACT_FLAG_BYTE_POSITION), 1) # 0,
     half_carry |-> BitAnd(Shr(byte, HALF_CARRY_FLAG_BYTE_POSITION), 1) # 0,
     carry      |-> BitAnd(Shr(byte, CARRY_FLAG_BYTE_POSITION), 1) # 0]

\* FlagsRegisterPair for u8
u8_set_from_u16(value) == value % U8
u8_get_u16(self) == self

\* FlagsRegisterPair for FlagsRegister
flags_set_from_u16(value) == U8ToFlags(value % U8)
flags_get_u16(self) == FlagsToU8(self)

(***************************************************************************)
(* Registers and the register_pair! accessors.                             *)
(***************************************************************************)
Pairs == {"af", "bc", "de", "hl"}

\* the high byte written by set_<pair>: ((value & 0xFF00) >> 8) as u8
HighOf(value) == Shr(BitAnd(value, 65280), 8) % U8

\* the low slot's argument in set_<pair>: value & 0xFF
LowOf(value) == BitAnd(value, 255)

get_af(r) == BitOr(Shl(r.a, 8, U16), flags_get_u16(r.f))
get_bc(r) == BitOr(Shl(r.b, 8, U16), u8_get_u16(r.c))
\* get_de shifting the high byte as a u8, without the cast to u16
get_de_NoCast(r) == BitOr(Shl(r.d, 8, U8), u8_get_u16(r.e))

get_de(r) == BitOr(Shl(r.d, 8, U16), u8_get_u16(r.e))
get_hl(r) == BitOr(Shl(r.h, 8, U16), u8_get_u16(r.l))

set_af(r, value) == [r EXCEPT !.a = HighOf(value), !.f = flags_set_from_u16(LowOf(value))]
set_bc(r, value) == [r EXCEPT !.b = HighOf(value), !.c = u8_set_from_u16(LowOf(value))]
set_de(r, value) == [r EXCEPT !.d = HighOf(value), !.e = u8_set_from_u16(LowOf(value))]
set_hl(r, value) == [r EXCEPT !.h = HighOf(value), !.l = u8_set_from_u16(LowOf(value))]

get_pair(r, p) ==
    CASE p = "af" -> get_af(r)
      [] p = "bc" -> get_bc(r)
      [] p = "de" -> get_de(r)
      [] p = "hl" -> get_hl(r)

set_pair(r, p, value) ==
    CASE p = "af" -> set_af(r, value)
      [] p = "bc" -> set_bc(r, value)
      [] p = "de" -> set_de(r, value)
      [] p = "hl" -> set_hl(r, value)

(***************************************************************************)
(* CPU: the ALU helpers.  Each takes the register file and the operand and *)
(* gives the flags it leaves, the value it returns and whether one of its  *)
(* plain (non-wrapping) arithmetic steps left the range of its type.       *)
(***************************************************************************)
Targets == {"A", "B", "C", "D", "E", "H", "L"}
ADDHLTargets == {"BC", "DE", "HL"}

get_value_from_target(r, target) ==
    CASE target = "A" -> r.a
      [] target = "B" -> r.b
      [] target = "C" -> r.c
      [] target = "D" -> r.d
      [] target = "E" -> r.e
      [] target = "H" -> r.h
      [] target = "L" -> r.l

\* the half-carry test of add and adc:
\* ((self.registers.a & 0xF) + (result & 0xF) & 0x10) == 0x10
AddHalfCarry(a, result) == BitAnd(BitAnd(a, 15) + BitAnd(result, 15), 16) = 16

\* the half-carry test of sub and sbc: (self.registers.a & 0xF) < (result & 0xF)
SubHalfCarry(a, result) == BitAnd(a, 15) < BitAnd(result, 15)

\* add leaving the carry flag unwritten
add_CarryKept(r, value) ==
    LET oa == overflowing_add(r.a, value, U8)
    IN  [f |-> [zero       |-> oa.result = 0,
                subtract   |-> FALSE,
                half_carry |-> AddHalfCarry(r.a, oa.result),
                carry      |-> r.f.carry],
         result |-> oa.result,
         trap |-> BitAnd(r.a, 15) + BitAnd(oa.result, 15) >= U8]

add(r, value) ==
    LET oa == overflowing_add(r.a, value, U8)
    IN  [f |-> [zero       |-> oa.result = 0,
                subtract   |-> FALSE,
                half_carry |-> AddHalfCarry(r.a, oa.result),
                carry      |-> oa.carry],
         result |-> oa.result,
         trap |-> BitAnd(r.a, 15) + BitAnd(oa.result, 15) >= U8]

addhl(r, value) ==
    LET oa == overflowing_add(get_hl(r), value, U16)
    IN  [f |-> [zero       |-> oa.result = 0,
                subtract   |-> FALSE,
                half_carry |-> BitAnd(get_hl(r), 4095) + BitAnd(oa.result, 4095) > 4095,
                carry      |-> oa.carry],
         result |-> oa.result,
         trap |-> BitAnd(get_hl(r), 4095) + BitAnd(oa.result, 4095) >= U16]

adc(r, value) ==
    LET previous_carry == AsU8(r.f.carry)
        oa == overflowing_add(r.a, value, U8)
        addend == AsU8(oa.carry) + previous_carry
        result == (oa.result + addend) % U8
    IN  [f |-> [zero       |-> result = 0,
                subtract   |-> FALSE,
                half_carry |-> AddHalfCarry(r.a, result),
                carry      |-> oa.carry],
         result |-> result,
         trap |-> \/ addend >= U8
                  \/ oa.result + addend >= U8
                  \/ BitAnd(r.a, 15) + BitAnd(result, 15) >= U8]

sub(r, value) ==
    LET os == overflowing_sub(r.a, value, U8)
    IN  [f |-> [zero       |-> os.result = 0,
                subtract   |-> TRUE,
                half_carry |-> SubHalfCarry(r.a, os.result),
                carry      |-> os.carry],
         result |-> os.result,
         trap |-> FALSE]

sbc(r, value) ==
    LET os == overflowing_sub(r.a, value, U8)
        result == (os.result - AsU8(os.carry) + U8) % U8
    IN  [f |-> [zero       |-> result = 0,
                subtract   |-> TRUE,
                half_carry |-> SubHalfCarry(r.a, result),
                carry      |-> os.carry],
         result |-> result,
         trap |-> os.result - AsU8(os.carry) < 0]

inc(r, target) ==
    LET oa == overflowing_add(target, 1, U8)
    IN  [f |-> [zero       |-> oa.result = 0,
                subtract   |-> FALSE,
                half_carry |-> BitAnd(target, 15) = 15,
                carry      |-> oa.carry],
         result |-> oa.result,
         trap |-> FALSE]

dec(r, target) ==
    LET os == overflowing_sub(target, 1, U8)
    IN  [f |-> [zero       |-> os.result = 0,
                subtract   |-> TRUE,
                half_carry |-> BitAnd(target, 15) = 0,
                carry      |-> os.carry],
         result |-> os.result,
         trap |-> FALSE]

\* the assignment `self.registers.<target> = value` of the INC and DEC arms
WriteTarget(r, target, value) ==
    CASE target = "A" -> [r EXCEPT !.a = value]
      [] target = "B" -> [r EXCEPT !.b = value]
      [] target = "C" -> [r EXCEPT !.c = value]
      [] target = "D" -> [r EXCEPT !.d = value]
      [] target = "E" -> [r EXCEPT !.e = value]
      [] target = "H" -> [r EXCEPT !.h = value]
      [] target = "L" -> [r EXCEPT !.l = value]

(***************************************************************************)
(* CPU::execute, one operator per match arm: the register file the arm     *)
(* leaves and whether an arithmetic step of it left its integer range.     *)
(***************************************************************************)
execute_ADD(r, target) ==
    LET o == add(r, get_value_from_target(r, target))
    IN  [registers |-> [r EXCEPT !.f = o.f, !.a = o.result], trap |-> o.trap]

execute_ADDHL(r, target) ==
    LET value == CASE target = "BC" -> get_bc(r)
                   [] target = "DE" -> get_de(r)
                   [] target = "HL" -> get_hl(r)
        o == addhl(r, value)
    IN  [registers |-> set_hl([r EXCEPT !.f = o.f], o.result), trap |-> o.trap]

execute_ADC(r, target) ==
    LET o == adc(r, get_value_from_target(r, target))
    IN  [registers |-> [r EXCEPT !.f = o.f, !.a = o.result], trap |-> o.trap]

execute_SUB(r, target) ==
    LET o == sub(r, get_value_from_target(r, target))
    IN  [registers |-> [r EXCEPT !.f = o.f, !.a = o.result], trap |-> o.trap]

execute_SBC(r, target) ==
    LET o == sbc(r, get_value_from_target(r, target))
    IN  [registers |-> [r EXCEPT !.f = o.f, !.a = o.result], trap |-> o.trap]

execute_AND(r, target) ==
    [registers |-> [r EXCEPT !.a = BitAnd(r.a, get_value_from_target(r, target))],
     trap |-> FALSE]

execute_OR(r, target) ==
    [registers |-> [r EXCEPT !.a = BitOr(r.a, get_value_from_target(r, target))],
     trap |-> FALSE]

execute_XOR(r, target) ==
    [registers |-> [r EXCEPT !.a = BitXor(r.a, get_value_from_target(r, target))],
     trap |-> FALSE]

\* the CP arm storing the difference in A, as the SUB arm does
execute_CP_Stores(r, target) ==
    LET o == sub(r, get_value_from_target(r, target))
    IN  [registers |-> [r EXCEPT !.f = o.f, !.a = o.result], trap |-> o.trap]

execute_CP(r, target) ==
    LET o == sub(r, get_value_from_target(r, target))
    IN  [registers |-> [r EXCEPT !.f = o.f], trap |-> o.trap]

execute_INC(r, target) ==
    LET o == inc(r, get_value_from_target(r, target))
    IN  [registers |-> WriteTarget([r EXCEPT !.f = o.f], target, o.result), trap |-> o.trap]

execute_DEC(r, target) ==
    LET o == dec(r, get_value_from_target(r, target))
    IN  [registers |-> WriteTarget([r EXCEPT !.f = o.f], target, o.result), trap |-> o.trap]

(***************************************************************************)
(* The state machine.  registers is the CPU's register file; pre, instr    *)
(* and ret record the register file before the last call, the call and the *)
(* value it returned (0 when it returns none); panicked holds once a call  *)
(* aborted.                                                                *)
(***************************************************************************)
AllFlags == FlagsRegister

NoInstr == [op |-> "NONE", target |-> "-", value |-> 0, trap |-> FALSE]

Init ==
    /\ \E a \in InitA, rest \in InitRest, f \in AllFlags :
          registers = [a |-> a, b |-> rest[1], c |-> rest[2], d |-> rest[3],
                       e |-> rest[4], f |-> f, h |-> rest[5], l |-> rest[6]]
    /\ pre = registers
    /\ instr = NoInstr
    /\ ret = 0
    /\ panicked = FALSE
    /\ steps = 0

\* one call of CPU::execute with outcome o.  An arithmetic step that leaves
\* its range aborts the call in a build with overflow checks and wraps in a
\* build without them.
Call(op, target, o) ==
    /\ ~panicked
    /\ steps < MaxSteps
    /\ steps' = steps + 1
    /\ pre' = registers
    /\ instr' = [op |-> op, target |-> target, value |-> 0, trap |-> o.trap]
    /\ ret' = 0
    /\ \/ /\ registers' = o.registers
          /\ panicked' = FALSE
       \/ /\ o.trap
          /\ registers' = registers
          /\ panicked' = TRUE

ExecADD(t)   == Call("ADD", t, execute_ADD(registers, t))
ExecADDHL(t) == Call("ADDHL", t, execute_ADDHL(registers, t))
ExecADC(t)   == Call("ADC", t, execute_ADC(registers, t))
ExecSUB(t)   == Call("SUB", t, execute_SUB(registers, t))
ExecSBC(t)   == Call("SBC", t, execute_SBC(registers, t))
ExecAND(t)   == Call("AND", t, execute_AND(registers, t))
ExecOR(t)    == Call("OR", t, execute_OR(registers, t))
ExecXOR(t)   == Call("XOR", t, execute_XOR(registers, t))
ExecCP(t)    == Call("CP", t, execute_CP(registers, t))
ExecINC(t)   == Call("INC", t, execute_INC(registers, t))
ExecDEC(t)   == Call("DEC", t, execute_DEC(registers, t))

\* registers.set_<pair>(value)
SetPair(p, value) ==
    /\ ~panicked
    /\ steps < MaxSteps
    /\ steps' = steps + 1
    /\ pre' = registers
    /\ instr' = [op |-> "SET", target |-> p, value |-> value, trap |-> FALSE]
    /\ ret' = 0
    /\ registers' = set_pair(registers, p, value)
    /\ panicked' = FALSE

\* registers.get_<pair>()
GetPair(p) ==
    /\ ~panicked
    /\ steps < MaxSteps
    /\ steps' = steps + 1
    /\ pre' = registers
    /\ instr' = [op |-> "GET", target |-> p, value |-> 0, trap |-> FALSE]
    /\ ret' = get_pair(registers, p)
    /\ UNCHANGED <<registers, panicked>>

Next ==
    \/ \E t \in Targets : ExecADD(t)
    \/ \E t \in ADDHLTargets : ExecADDHL(t)
    \/ \E t \in Targets : ExecADC(t)
    \/ \E t \in Targets : ExecSUB(t)
    \/ \E t \in Targets : ExecSBC(t)
    \/ \E t \in Targets : ExecAND(t)
    \/ \E t \in Targets : ExecOR(t)
    \/ \E t \in Targets : ExecXOR(t)
    \/ \E t \in Targets : ExecCP(t)
    \/ \E t \in Targets : ExecINC(t)
    \/ \E t \in Targets : ExecDEC(t)
    \/ \E p \in Pairs : \E value \in WordSamples \cup {get_pair(registers, p)} : SetPair(p, value)
    \/ \E p \in Pairs : GetPair(p)

Spec == Init /\ [][Next]_vars

(***************************************************************************)
(* The flags conversions on their own: FlagsRegister::from(byte) for every *)
(* byte and u8::from(flags) for every flags value.                         *)
(***************************************************************************)
Bytes == 0..255

InitFlags ==
    /\ \E f \in AllFlags :
          registers = [a |-> 0, b |-> 0, c |-> 0, d |-> 0, e |-> 0, f |-> f, h |-> 0, l |-> 0]
    /\ pre = registers
    /\ instr = NoInstr
    /\ ret = 0
    /\ panicked = FALSE
    /\ steps = 0

\* registers.f = FlagsRegister::from(byte)
FromU8(byte) ==
    /\ registers' = [registers EXCEPT !.f = U8ToFlags(byte)]
    /\ pre' = registers
    /\ instr' = [op |-> "FROM_U8", target |-> "f", value |-> byte, trap |-> FALSE]
    /\ ret' = 0
    /\ UNCHANGED <<panicked, steps>>

\* u8::from(registers.f)
ToU8 ==
    /\ ret' = FlagsToU8(registers.f)
    /\ pre' = registers
    /\ instr' = [op |-> "TO_U8", target |-> "f", value |-> 0, trap |-> FALSE]
    /\ UNCHANGED <<registers, panicked, steps>>

NextFlags ==
    \/ \E byte \in Bytes : FromU8(byte)
    \/ ToU8

SpecFlags == InitFlags /\ [][NextFlags]_vars

(***************************************************************************)
(* Properties.  The expected values are written with plain arithmetic on   *)
(* the register file recorded before the call.                             *)
(***************************************************************************)
\* the value of 8-bit register t in register file r
Reg(r, t) == [A |-> r.a, B |-> r.b, C |-> r.c, D |-> r.d, E |-> r.e, H |-> r.h, L |-> r.l][t]

\* the eight-bit registers of r, without the flags
Bytes8(r) == <<r.a, r.b, r.c, r.d, r.e, r.h, r.l>>

\* the canonical byte of a flags value: zero at bit 7, subtract at bit 6,
\* half-carry at bit 5, carry at bit 4
FlagByte(f) == 128 * AsU8(f.zero) + 64 * AsU8(f.subtract) + 32 * AsU8(f.half_carry) + 16 * AsU8(f.carry)

\* high and low slot of pair p in register file r
PairHigh(r, p) == [af |-> r.a, bc |-> r.b, de |-> r.d, hl |-> r.h][p]
PairLow(r, p) == [af |-> FlagByte(r.f), bc |-> r.c, de |-> r.e, hl |-> r.l][p]

Completed(op) == instr.op = op /\ ~panicked

\* C1: after execute(ADD(r)), A == (a + b) mod 256 and carry is set exactly
\* when a + b >= 256, whatever the flags were before.
C1_AddResultCarry ==
    Completed("ADD") =>
        LET a == pre.a
            b == Reg(pre, instr.target)
        IN  /\ registers.a = (a + b) % 256
            /\ registers.f.carry = (a + b >= 256)

C1_Witness ==
    /\ Completed("ADD")
    /\ instr.target # "A"
    /\ pre.a + Reg(pre, instr.target) >= 256
    /\ ~pre.f.carry
    /\ registers.f.carry

\* C2: after execute(ADC(r)), A == (a + b + cin) mod 256 and carry is set
\* exactly when a + b + cin >= 256; nothing but the carry-in is added.
C2_AdcResultCarry ==
    Completed("ADC") =>
        LET a == pre.a
            b == Reg(pre, instr.target)
            cin == AsU8(pre.f.carry)
        IN  /\ registers.a = (a + b + cin) % 256
            /\ registers.f.carry = (a + b + cin >= 256)

\* C3: after execute(SBC(r)), A == (a - b - cin) mod 256, subtract is set and
\* carry is set exactly when a < b + cin.
C3_SbcResultCarry ==
    Completed("SBC") =>
        LET a == pre.a
            b == Reg(pre, instr.target)
            cin == AsU8(pre.f.carry)
        IN  /\ registers.a = (a - b - cin + 512) % 256
            /\ registers.f.subtract
            /\ registers.f.carry = (a < b + cin)

\* C4: right after AND, OR or XOR all four flags are recomputed: zero exactly
\* when the new A is 0, and subtract, half-carry and carry all false.
C4_LogicFlags ==
    (instr.op \in {"AND", "OR", "XOR"} /\ ~panicked) =>
        /\ registers.f.zero = (registers.a = 0)
        /\ ~registers.f.subtract
        /\ ~registers.f.half_carry
        /\ ~registers.f.carry

\* C5: INC and DEC leave the carry flag as it was; the target becomes
\* (v + 1) mod 256 resp. (v - 1) mod 256, zero tells whether that is 0 and
\* half-carry whether the low nibble of v was 0xF resp. 0x0.
C5_IncDecCarryKept ==
    (instr.op \in {"INC", "DEC"} /\ ~panicked) =>
        LET v == Reg(pre, instr.target)
            res == IF instr.op = "INC" THEN (v + 1) % 256 ELSE (v + 255) % 256
        IN  /\ registers.f.carry = pre.f.carry
            /\ Reg(registers, instr.target) = res
            /\ registers.f.zero = (res = 0)
            /\ registers.f.half_carry = (v % 16 = (IF instr.op = "INC" THEN 15 ELSE 0))

\* C6: execute(CP(r)) leaves A, B, C, D, E, H, L unchanged and its flags are
\* those execute(SUB(r)) gives from the same register file.
C6_CpFrame ==
    Completed("CP") =>
        /\ Bytes8(registers) = Bytes8(pre)
        /\ registers.f = execute_SUB(pre, instr.target).registers.f

C6_Witness ==
    /\ Completed("CP")
    /\ instr.target # "A"
    /\ pre.a # 0
    /\ registers.f # pre.f
    /\ registers.f.carry

\* C7: no call of execute aborts and no plain arithmetic step of it leaves
\* the range of its integer type.
C7_ExecuteTotal == ~panicked /\ ~instr.trap

\* C8: FlagsRegister::from(u8::from(f)) == f for every flags value f, and
\* u8::from(FlagsRegister::from(b)) == b & 0xF0 for every byte b, with zero at
\* bit 7, subtract at bit 6, half-carry at bit 5, carry at bit 4.
C8_FlagsRoundTrip ==
    /\ U8ToFlags(FlagsToU8(registers.f)) = registers.f
    /\ FlagsToU8(registers.f) = FlagByte(registers.f)
    /\ instr.op = "FROM_U8" =>
          /\ FlagsToU8(registers.f) = instr.value - (instr.value % 16)
          /\ registers.f.zero = ((instr.value \div 128) % 2 = 1)
          /\ registers.f.subtract = ((instr.value \div 64) % 2 = 1)
          /\ registers.f.half_carry = ((instr.value \div 32) % 2 = 1)
          /\ registers.f.carry = ((instr.value \div 16) % 2 = 1)
    /\ instr.op = "TO_U8" =>
          /\ ret = FlagByte(registers.f)
          /\ ret % 16 = 0

C8_Witness ==
    /\ instr.op = "FROM_U8"
    /\ instr.value = 85
    /\ registers.f = [zero |-> FALSE, subtract |-> TRUE, half_carry |-> FALSE, carry |-> TRUE]

\* C9: get_pair returns (high << 8) | low; set_pair(get_pair()) changes
\* nothing; for BC, DE, HL set_pair(v) then get_pair() gives v with
\* high == v >> 8, low == v & 0xFF and nothing else changed; for AF it gives
\* v & 0xFFF0.
C9_PairAccess ==
    /\ instr.op = "GET" =>
          /\ ret = 256 * PairHigh(pre, instr.target) + PairLow(pre, instr.target)
          /\ registers = pre
    /\ instr.op = "SET" =>
          LET p == instr.target
              v == instr.value
          IN  /\ v = 256 * PairHigh(pre, p) + PairLow(pre, p) => registers = pre
              /\ PairHigh(registers, p) = v \div 256
              /\ p # "af" =>
                    /\ get_pair(registers, p) = v
                    /\ PairLow(registers, p) = v % 256
                    /\ registers.f = pre.f
              /\ p = "af" => get_pair(registers, p) = v - (v % 16)
              /\ \A q \in Pairs \ {p} :
                    /\ PairHigh(registers, q) = PairHigh(pre, q)
                    /\ PairLow(registers, q) = PairLow(pre, q)

C9_Witness ==
    /\ instr.op = "SET"
    /\ instr.target = "af"
    /\ instr.value = 65535
    /\ ~pre.f.zero
    /\ get_af(registers) = 65520

\* C10: execute(ADD(r)) sets half-carry exactly when
\* (a & 0xF) + (b & 0xF) > 0xF, subtract to false and zero exactly when
\* (a + b) mod 256 == 0.
C10_AddHalfCarry ==
    Completed("ADD") =>
        LET a == pre.a
            b == Reg(pre, instr.target)
        IN  /\ registers.f.half_carry = ((a % 16) + (b % 16) > 15)
            /\ ~registers.f.subtract
            /\ registers.f.zero = ((a + b) % 256 = 0)

====
